---- MODULE Spec2Model ----
(***************************************************************************)
(* Model of eleztian/libio: the streaming multi-token replacer             *)
(* (NewReplacer, replacer, byteReplace, StreamReplacingReader).            *)
(*                                                                         *)
(* A byte is a one-character string, a Go string or []byte a sequence of   *)
(* bytes.  `buf` holds the live prefix r.buf[0:r.buf1] of the engine's     *)
(* array; the bytes of r.buf at and after r.buf1 are never read before     *)
(* they are overwritten, and len(r.buf) is kept in bufLen.                 *)
(* A float64 ratio searchLen/replaceLen is kept as the exact fraction      *)
(* [num, den]; every token of the model is at most defaultBufSize long,    *)
(* so len(r.buf) = 4096 = 2^12 and int(ratio * 4096) is the exact floor.   *)
(***************************************************************************)
EXTENDS Integers, Sequences, FiniteSets, TLC

\* ---------------------------------------------------------------- bounds
MaxInputLen == 4
MaxReports == 2
MaxResets == 1
MaxResetInputLen == 2
MaxCalls == 4
MaxBufNum == 2
MaxBufSize == 2

\* ------------------------------------------------------------- constants
defaultBufSize == 4096

Nil == "nil"
EOF == "EOF"
ERR == "ERR"

max(a, b) == IF a > b THEN a ELSE b

Min2(a, b) == IF a < b THEN a ELSE b

Rep(c, k) == [i \in 1..k |-> c]

\* r.buf[lo:hi] of a Go slice, lo and hi 0-based
Slice(s, lo, hi) == SubSeq(s, lo + 1, hi)

\* ------------------------------------------------------------ byteReplace
NoRatio == [num |-> -1, den |-> 1]

\* a > b for float64 ratios kept as fractions with positive denominators
RatioGT(a, b) == a.num * b.den > b.num * a.den

ByteReplaceGetSizingHints(b) ==
    LET searchLen == Len(b.search)
        replaceLen == Len(b.replace)
    IN  [searchLen |-> searchLen,
         replaceLen |-> replaceLen,
         ratio |-> IF searchLen < replaceLen
                   THEN [num |-> searchLen, den |-> replaceLen]
                   ELSE NoRatio]

\* bytes.Index(buf, sep): first 0-based index of sep in buf, or -1
BytesIndex(b, sep) ==
    IF Len(sep) > Len(b) THEN -1
    ELSE LET hits == {i \in 0..(Len(b) - Len(sep)) :
                         \A j \in 1..Len(sep) : b[i + j] = sep[j]}
         IN  IF hits = {} THEN -1
             ELSE CHOOSE i \in hits : \A k \in hits : i <= k

ByteReplaceIndex(b, bs) ==
    [index |-> BytesIndex(bs, b.search), search |-> b.search, replace |-> b.replace]

\* ---------------------------------------------------------------- replacer
EmptyReplacer ==
    [replaces |-> <<>>, maxSearchLen |-> 0, maxReplaceLen |-> 0, maxRatio |-> NoRatio]

OddCountNever(n) == FALSE

\* len(oldnews)%2 == 1
OddCount(n) == n % 2 = 1

DroppedNever(old) == FALSE

\* len(oldnews[i]) == 0: the pair is skipped
Dropped(old) == Len(old) = 0

\* the loop reads oldnews[i+1] behind the end of an odd-length list, unless
\* the last search is empty and skipped
RunsOff(oldnews) ==
    Len(oldnews) % 2 = 1 /\ ~Dropped(oldnews[Len(oldnews)])

KeepRatio(ratio, maxRatio) == IF RatioGT(ratio, maxRatio) THEN ratio ELSE maxRatio

\* one iteration of the loop of NewReplacer, for the pair at oldnews[i], oldnews[i+1]
\* (i 0-based)
NewReplacerStep(res, old, new) ==
    IF Dropped(old) THEN res
    ELSE LET er == [search |-> old, replace |-> new]
             h == ByteReplaceGetSizingHints(er)
         IN  [replaces |-> Append(res.replaces, er),
              maxSearchLen |-> IF h.searchLen > res.maxSearchLen
                               THEN h.searchLen ELSE res.maxSearchLen,
              maxReplaceLen |-> IF h.replaceLen > res.maxReplaceLen
                                THEN h.replaceLen ELSE res.maxReplaceLen,
              maxRatio |-> KeepRatio(h.ratio, res.maxRatio)]

RECURSIVE NewReplacerLoop(_, _, _)
NewReplacerLoop(oldnews, i, res) ==
    IF i >= Len(oldnews) THEN res
    ELSE IF i + 2 > Len(oldnews) THEN NewReplacerStep(res, oldnews[i + 1], <<>>)
    ELSE NewReplacerLoop(oldnews, i + 2,
                         NewReplacerStep(res, oldnews[i + 1], oldnews[i + 2]))

ReplacerGetSizingHints(r) ==
    [searchLen |-> r.maxSearchLen, replaceLen |-> r.maxReplaceLen, ratio |-> r.maxRatio]

NotFound == [index |-> -1, search |-> <<>>, replace |-> <<>>, member |-> 0]

BetterOrSame(index, resIndex) == resIndex = -1 \/ index <= resIndex

Better(index, resIndex) == resIndex = -1 \/ index < resIndex

\* the loop of replacer.Index over r.replaces[k..]; member is the 1-based
\* position in r.replaces of the pair the result came from
RECURSIVE ReplacerIndexLoop(_, _, _, _)
ReplacerIndexLoop(replaces, bs, k, res) ==
    IF k > Len(replaces) THEN res
    ELSE LET m == ByteReplaceIndex(replaces[k], bs)
         IN  ReplacerIndexLoop(replaces, bs, k + 1,
                 IF m.index >= 0 /\ Better(m.index, res.index)
                 THEN [index |-> m.index, search |-> m.search,
                       replace |-> m.replace, member |-> k]
                 ELSE res)

ReplacerIndex(r, bs) ==
    IF Len(bs) = 0 THEN NotFound
    ELSE ReplacerIndexLoop(r.replaces, bs, 1, NotFound)

\* ------------------------------------------------- StreamReplacingReader
KeptErr(e) == e

\* r.err = nil in ResetEx
ClearedErr(e) == Nil

\* len(r.buf) after "if r.buf == nil || len(r.buf) < bufSize { make }";
\* a nil r.buf has length 0
ReusedBufLen(n, bufSize) == IF n = 0 \/ n < bufSize THEN bufSize ELSE n

NoSearchTokenNever(n) == FALSE

\* maxSearchTokenLen == 0
NoSearchToken(n) == n = 0

\* int(maxSearchOverReplaceLenRatio * float64(len(r.buf)))
FillBound(ratio, n) == (ratio.num * n) \div ratio.den

ReadRegionWhole(rmax, n) == n

\* the end of the region r.buf[r.buf1:r.max] handed to the underlying reader
ReadRegionEnd(rmax, n) == rmax

NoMatchBoundAll(b0, b1, maxSearchTokenLen) == b1

NoMatchBoundKeep(b0, b1, maxSearchTokenLen) == b0

\* r.buf0 after a scan that found nothing
NoMatchBound(b0, b1, maxSearchTokenLen) == max(b0, b1 - maxSearchTokenLen + 1)

AfterReplaceStart(index, replaceTokenLen) == index

\* r.buf0 after a replacement: index + replaceTokenLen
AfterReplace(index, replaceTokenLen) == index + replaceTokenLen

HasProcessedAlways(b0) == b0 >= 0

\* r.buf0 > 0: the branch that hands processed bytes to the caller
HasProcessed(b0) == b0 > 0

FlushNone(e, b0, b1) == b0

\* r.buf0 after the inner loop, given the condition the underlying read returned
FlushAt(e, b0, b1) == IF e # Nil THEN b1 ELSE b0

PendingNever(e) == FALSE

\* the test of the branch that returns the pending condition with zero bytes
Pending(e) == e # Nil

\* the test that makes the drain branch return the pending condition
DrainReports(b1, e) == b1 = 0 /\ e # Nil

CompactNone(b, n, b1) == Slice(b, 0, b1)

\* copy(r.buf, r.buf[n:r.buf1+n]), r.buf1 already lowered by n
Compact(b, n, b1) == Slice(b, n, b1 + n)

\* the two copies of the replace step, on the live prefix b = r.buf[0:r.buf1]
ReplaceAt(b, index, searchTokenLen, replace) ==
    Slice(b, 0, index) \o replace \o Slice(b, index + searchTokenLen, Len(b))

\* ------------------------------------------------------------ environment
a == "a"
b == "b"

BigGrow == Rep("x", 3000)
FullGrow == Rep("x", 4096)
HalfGrow == Rep("a", 2048)
WideGrow == Rep("x", 5000)

\* argument lists given to NewReplacer
TokenSets ==
    { <<  <<a, b, a>>, <<"X">>,   <<b>>, <<"Y">>  >>,
      <<  <<a>>, <<"x">>,   <<a, b>>, <<"y">>  >>,
      <<  <<a, b>>, <<"y">>,   <<a>>, <<"x">>  >>,
      <<  <<a, b>>, <<a, b>>,   <<b>>, <<b>>  >>,
      <<  <<b, a>>, <<b, a>>,   <<a, b>>, <<a, b>>  >>,
      <<  <<a, b>>, <<>>  >>,
      <<  <<a>>, <<a, a>>  >>,
      <<  <<b, a>>, <<a, b, b>>  >>,
      <<  <<a, b>>, HalfGrow  >>,
      <<  <<a, b>>, FullGrow  >>,
      <<  <<a, b>>, WideGrow  >>,
      <<  <<a>>, BigGrow,   <<b, b>>, <<b, b, b>>  >>,
      <<  <<a>>, FullGrow,   <<b, b>>, <<"c">>  >>,
      <<  <<a>>, FullGrow,   <<b, b, b>>, <<"c">>  >>,
      <<  <<>>, <<"x">>,   <<a>>, <<b>>  >>,
      <<  <<a, b>>, <<b>>,   <<>>, <<"x", "x", "x">>  >>,
      <<  <<>>, <<"x">>  >>,
      << >>,
      <<  <<a>>  >>,
      <<  <<>>  >>,
      <<  <<a>>, <<b>>,   <<a, b>>  >> }

Alphabet == {a, b}

RECURSIVE SeqsUpTo(_)
SeqsUpTo(k) ==
    IF k = 0 THEN {<<>>}
    ELSE LET shorter == SeqsUpTo(k - 1)
         IN  shorter \cup {Append(s, c) : s \in {t \in shorter : Len(t) = k - 1}, c \in Alphabet}

Inputs == SeqsUpTo(MaxInputLen)

\* what a second ResetEx on the same engine is given
ResetTokenSets ==
    { <<  <<a>>, <<a, a>>  >>,
      <<  <<a, b>>, <<"y">>,   <<a>>, <<"x">>  >>,
      <<  <<a, b>>, HalfGrow  >>,
      << >> }

ResetInputs == SeqsUpTo(MaxResetInputLen)

\* lengths of the caller's p
SmallPSizes == {0, 1, 2, 5000}
LargePSizes == {0, 2000, 5000}

VARIABLES
    pc,        \* "new", "wrap", "idle", "top", "scan", "panic"
    oldnews,   \* the arguments of NewReplacer
    replacer,  \* the *replacer NewReplacer returned
    r1,        \* the io.Reader given to Replace: "reader" or Nil
    input,     \* the bytes the underlying reader holds
    term,      \* the condition the underlying reader ends with: EOF or ERR
    pos,       \* how many bytes of input the underlying reader has handed over
    srcDone,   \* the underlying reader has returned its terminal condition
    latePulls, \* pulls made after srcDone (0 or 1)
    spin,      \* parity of the pulls of the current Read call that were handed an
               \* empty region and came back with (0, nil)
    maxSearchTokenLen, err, buf, bufLen, buf0, buf1, rmax,  \* StreamReplacingReader
    plen,      \* len(p) of the Read call in progress
    ret,       \* what the last Read call returned
    out,       \* all bytes Read calls have copied into p so far
    hist,      \* every byte read so far, replacements applied
    reports,   \* Read returns since, and including, the first that carried a condition
    bytewise,  \* no pull so far has returned more than one byte
    resets,    \* ResetEx calls on the engine after the first
    resetFrom, \* what the engine held at the last of them
    written,   \* index in r.buf behind the last replacement written, 0 once drained
    panicMsg,
    \* bytespool/fixed.Allocator and its callers
    freeList,  \* the buffers in the channel fp.freeList, oldest first
    poolBufSize,   \* fp.bufSize
    bufNum,    \* the capacity of fp.freeList
    ppc,       \* per caller: "idle", "get" (inside Get), "put" (inside Put)
    psize,     \* per caller: the size given to Get
    pbuf,      \* per caller: the buffer given to Put
    pres,      \* per caller: what its last call returned, and how many
               \* buffers the free list held when the call reached its select
    nextId,    \* the identity of the next buffer make([]byte, n) returns
    calls      \* calls made so far

streamVars == <<pc, oldnews, replacer, r1, input, term, pos, srcDone, latePulls, spin,
          maxSearchTokenLen, err, buf, bufLen, buf0, buf1, rmax,
          plen, ret, out, hist, reports, bytewise, written, resets, resetFrom, panicMsg>>

poolVars == <<freeList, poolBufSize, bufNum, ppc, psize, pbuf, pres, nextId, calls>>

vars == <<streamVars, poolVars>>

envVars == <<oldnews, r1, input, term, resets, resetFrom, poolVars>>
engineVars == <<maxSearchTokenLen, err, buf, bufLen, buf0, buf1, rmax>>
srcVars == <<pos, srcDone, latePulls, bytewise>>
callVars == <<plen, ret, out, reports>>

Procs == {1, 2}

\* a []byte of the pool: which allocation it is, and its length; nil is NoBuf
NoBuf == [id |-> 0, len |-> 0]

ErrSize == "invalid buffer size that's put into fixed size pool buffer"

NoResult == [op |-> "none", buf |-> NoBuf, err |-> Nil, fill |-> 0]

\* NewBytePool(n, size)
NewBytePool(n, size) ==
    /\ freeList = <<>>
    /\ poolBufSize = size
    /\ bufNum = n
    /\ ppc = [p \in Procs |-> "idle"]
    /\ psize = [p \in Procs |-> 0]
    /\ pbuf = [p \in Procs |-> NoBuf]
    /\ pres = [p \in Procs |-> NoResult]
    /\ nextId = 1
    /\ calls = 0

InitWith(ins) ==
    /\ pc = "new"
    /\ NewBytePool(0, 0)
    /\ oldnews \in TokenSets
    /\ r1 \in {"reader", Nil}
    /\ input \in ins
    /\ resets = 0
    /\ resetFrom = "none"
    /\ term \in {EOF, ERR}
    /\ replacer = EmptyReplacer
    /\ pos = 0
    /\ srcDone = FALSE
    /\ latePulls = 0
    /\ spin = 0
    /\ maxSearchTokenLen = 0
    /\ err = Nil
    /\ buf = <<>>
    /\ bufLen = 0
    /\ buf0 = 0
    /\ buf1 = 0
    /\ rmax = 0
    /\ plen = 0
    /\ ret = [n |-> 0, err |-> Nil]
    /\ out = <<>>
    /\ hist = <<>>
    /\ reports = 0
    /\ bytewise = TRUE
    /\ written = 0
    /\ panicMsg = ""

Init == InitWith(Inputs)

ResetInit == InitWith(ResetInputs)

\* NewReplacer(oldnews...)
NewReplacer ==
    /\ pc = "new"
    /\ IF OddCount(Len(oldnews))
       THEN /\ pc' = "panic"
            /\ panicMsg' = "stream.NewReplacer: odd argument count"
            /\ UNCHANGED replacer
       ELSE IF RunsOff(oldnews)
       THEN /\ pc' = "panic"
            /\ panicMsg' = "index out of range"
            /\ UNCHANGED replacer
       ELSE /\ pc' = "wrap"
            /\ replacer' = NewReplacerLoop(oldnews, 0, EmptyReplacer)
            /\ UNCHANGED panicMsg
    /\ UNCHANGED <<envVars, srcVars, spin, engineVars, callVars, hist, written>>

\* ResetEx(reader, rep) on the engine as it stands
ResetExBody(reader, rep) ==
    LET h == ReplacerGetSizingHints(rep)
        bufSize == max(defaultBufSize, max(h.searchLen, h.replaceLen))
        n == ReusedBufLen(bufLen, bufSize)
    IN  IF reader = Nil
        THEN /\ pc' = "panic"
             /\ panicMsg' = "io.Reader cannot be nil"
             /\ UNCHANGED <<engineVars, written>>
        ELSE IF NoSearchToken(h.searchLen)
        THEN /\ pc' = "panic"
             /\ panicMsg' = "search token cannot be nil/empty"
             /\ UNCHANGED <<engineVars, written>>
        ELSE /\ pc' = "idle"
             /\ maxSearchTokenLen' = h.searchLen
             /\ err' = ClearedErr(err)
             /\ buf' = <<>>
             /\ bufLen' = n
             /\ buf0' = 0
             /\ buf1' = 0
             /\ written' = 0
             /\ rmax' = IF h.ratio.num > 0 THEN FillBound(h.ratio, n) ELSE n
             /\ UNCHANGED panicMsg

\* replacer.Replace(src): (&StreamReplacingReader{}).ResetEx(src, r)
ResetEx ==
    /\ pc = "wrap"
    /\ ResetExBody(r1, replacer)
    /\ UNCHANGED <<envVars, replacer, srcVars, spin, callVars, hist>>

\* between two Reads the caller gives the engine another reader and another
\* replacer: r.ResetEx(src, NewReplacer(oldnews...))
ResetAgain ==
    /\ pc = "idle"
    /\ resets < MaxResets
    /\ \E on \in ResetTokenSets, in \in ResetInputs, t \in {EOF, ERR} :
           /\ oldnews' = on
           /\ input' = in
           /\ term' = t
           /\ replacer' = NewReplacerLoop(on, 0, EmptyReplacer)
           /\ ResetExBody("reader", NewReplacerLoop(on, 0, EmptyReplacer))
    /\ r1' = "reader"
    /\ resets' = resets + 1
    /\ resetFrom' = IF reports >= 1 THEN "exhausted"
                    ELSE IF err # Nil THEN "draining"
                    ELSE IF buf1 > 0 THEN "mid"
                    ELSE "fresh"
    /\ pos' = 0
    /\ srcDone' = FALSE
    /\ latePulls' = 0
    /\ bytewise' = TRUE
    /\ spin' = 0
    /\ plen' = 0
    /\ ret' = [n |-> 0, err |-> Nil]
    /\ out' = <<>>
    /\ hist' = <<>>
    /\ reports' = 0
    /\ UNCHANGED poolVars

PSizes == IF replacer.maxReplaceLen > 8 THEN LargePSizes ELSE SmallPSizes

\* the caller calls Read(p)
ReadCall ==
    /\ pc = "idle"
    /\ reports < MaxReports
    /\ \E k \in PSizes : plen' = k
    /\ pc' = "top"
    /\ UNCHANGED <<envVars, replacer, srcVars, spin, engineVars, ret, out, reports, hist, written, panicMsg>>

Return(n, e) ==
    /\ pc' = "idle"
    /\ ret' = [n |-> n, err |-> e]
    /\ spin' = 0
    /\ reports' = IF reports > 0 \/ e # Nil THEN reports + 1 ELSE reports

\* Read, lines 85-93: hand processed bytes to the caller
ReadDrain ==
    /\ pc = "top"
    /\ HasProcessed(buf0)
    /\ LET n == Min2(plen, buf0)
       IN  /\ out' = out \o Slice(buf, 0, n)
           /\ written' = max(0, written - n)
           /\ buf0' = buf0 - n
           /\ buf1' = buf1 - n
           /\ IF DrainReports(buf1 - n, err)
              THEN /\ buf' = <<>>
                   /\ Return(n, err)
              ELSE /\ buf' = Compact(buf, n, buf1 - n)
                   /\ Return(n, Nil)
    /\ UNCHANGED <<envVars, replacer, srcVars, maxSearchTokenLen, err, bufLen, rmax,
                   plen, hist, panicMsg>>

\* Read, lines 94-96
ReadPending ==
    /\ pc = "top"
    /\ ~HasProcessed(buf0)
    /\ Pending(err)
    /\ Return(0, err)
    /\ UNCHANGED <<envVars, replacer, srcVars, engineVars, plen, out, hist, written, panicMsg>>

\* what an io.Reader holding input[pos..] and ending with term may return for
\* a p of length k: some or all of the bytes left, the last of them with or
\* without the terminal condition; (0, nil) for an empty p.  A reader that
\* returns (0, nil) for a non-empty p only makes Read pull again.
SrcResults(k) ==
    LET rem == Len(input) - pos
    IN  IF rem = 0
        THEN {[n |-> 0, err |-> term]} \cup (IF k = 0 THEN {[n |-> 0, err |-> Nil]} ELSE {})
        ELSE IF k = 0
             THEN {[n |-> 0, err |-> Nil]}
             ELSE {[n |-> i, err |-> Nil] : i \in 1..Min2(k, rem)}
                  \cup (IF rem <= k THEN {[n |-> rem, err |-> term]} ELSE {})

\* Read, lines 98-100 and, when n = 0, 120-122
ReadPull ==
    /\ pc = "top"
    /\ ~HasProcessed(buf0)
    /\ ~Pending(err)
    /\ IF buf1 > ReadRegionEnd(rmax, bufLen)
       THEN /\ pc' = "panic"
            /\ panicMsg' = "slice bounds out of range"
            /\ UNCHANGED <<srcVars, spin, engineVars, hist>>
       ELSE \E r \in SrcResults(ReadRegionEnd(rmax, bufLen) - buf1) :
            /\ latePulls' = IF srcDone THEN 1 ELSE latePulls
            /\ srcDone' = (srcDone \/ r.err # Nil)
            /\ pos' = pos + r.n
            /\ bytewise' = (bytewise /\ r.n <= 1)
            /\ spin' = IF ReadRegionEnd(rmax, bufLen) - buf1 = 0 /\ r = [n |-> 0, err |-> Nil]
                       THEN 1 - spin ELSE spin
            /\ err' = r.err
            /\ buf' = buf \o Slice(input, pos, pos + r.n)
            /\ hist' = hist \o Slice(input, pos, pos + r.n)
            /\ buf1' = buf1 + r.n
            /\ IF r.n > 0
               THEN pc' = "scan" /\ buf0' = buf0
               ELSE pc' = "top" /\ buf0' = FlushAt(r.err, buf0, buf1)
            /\ UNCHANGED <<maxSearchTokenLen, bufLen, rmax, panicMsg>>
    /\ UNCHANGED <<envVars, replacer, callVars, written>>

\* Read, lines 102-118 (one pass of the inner loop) and, on leaving it, 120-122
Scan ==
    /\ pc = "scan"
    /\ LET m == ReplacerIndex(replacer, Slice(buf, buf0, buf1))
           searchTokenLen == Len(m.search)
           replaceTokenLen == Len(m.replace)
           lenDelta == replaceTokenLen - searchTokenLen
           index == m.index + buf0
       IN  IF m.index < 0
           THEN /\ buf0' = FlushAt(err, NoMatchBound(buf0, buf1, maxSearchTokenLen), buf1)
                /\ pc' = "top"
                /\ UNCHANGED <<buf, buf1, hist, written, panicMsg>>
           ELSE IF searchTokenLen = 0
           THEN /\ pc' = "panic"
                /\ panicMsg' = "search token cannot be nil/empty"
                /\ UNCHANGED <<buf, buf0, buf1, hist, written>>
           ELSE IF buf1 + lenDelta > bufLen
           THEN /\ pc' = "panic"
                /\ panicMsg' = "slice bounds out of range"
                /\ UNCHANGED <<buf, buf0, buf1, hist, written>>
           ELSE /\ buf' = ReplaceAt(buf, index, searchTokenLen, m.replace)
                /\ hist' = ReplaceAt(hist, Len(hist) - buf1 + index, searchTokenLen, m.replace)
                /\ buf0' = AfterReplace(index, replaceTokenLen)
                /\ written' = index + replaceTokenLen
                /\ buf1' = buf1 + lenDelta
                /\ pc' = "scan"
                /\ UNCHANGED panicMsg
    /\ UNCHANGED <<envVars, replacer, srcVars, spin, maxSearchTokenLen, err, bufLen, rmax, callVars>>

Next ==
    \/ NewReplacer
    \/ ResetEx
    \/ ReadCall
    \/ ReadDrain
    \/ ReadPending
    \/ ReadPull
    \/ Scan

Spec == Init /\ [][Next]_vars

ResetNext ==
    \/ Next
    \/ ResetAgain

\* the engine with a second ResetEx, on inputs of at most MaxResetInputLen bytes
ResetSpec == ResetInit /\ [][ResetNext]_vars

\* ------------------------------------------------------- bytespool/fixed
\* case b = <-fp.freeList is ready
CanRecv(fl) == Len(fl) > 0

CanSendAlways(fl, n) == TRUE

\* case fp.freeList <- b is ready
CanSend(fl, n) == Len(fl) < n

PutSizeOKAlways(n, size) == TRUE

\* len(b) == fp.bufSize
PutSizeOK(n, size) == n = size

\* a caller enters Get(size)
GetCall(p) ==
    /\ ppc[p] = "idle"
    /\ calls < MaxCalls
    /\ \E size \in 0..(MaxBufSize + 1) : psize' = [psize EXCEPT ![p] = size]
    /\ ppc' = [ppc EXCEPT ![p] = "get"]
    /\ calls' = calls + 1
    /\ UNCHANGED <<streamVars, freeList, poolBufSize, bufNum, pbuf, pres, nextId>>

\* Get: the size test and the select
GetBody(p) ==
    /\ ppc[p] = "get"
    /\ ppc' = [ppc EXCEPT ![p] = "idle"]
    /\ IF poolBufSize # psize[p]
       THEN /\ pres' = [pres EXCEPT ![p] = [op |-> "Get", buf |-> NoBuf, err |-> Nil,
                                             fill |-> Len(freeList)]]
            /\ UNCHANGED <<freeList, nextId>>
       ELSE IF CanRecv(freeList)
       THEN /\ pres' = [pres EXCEPT ![p] = [op |-> "Get", buf |-> Head(freeList), err |-> Nil,
                                             fill |-> Len(freeList)]]
            /\ freeList' = Tail(freeList)
            /\ UNCHANGED nextId
       ELSE /\ pres' = [pres EXCEPT ![p] = [op |-> "Get",
                                             buf |-> [id |-> nextId, len |-> poolBufSize],
                                             err |-> Nil, fill |-> Len(freeList)]]
            /\ nextId' = nextId + 1
            /\ UNCHANGED freeList
    /\ UNCHANGED <<streamVars, poolBufSize, bufNum, psize, pbuf, calls>>

\* a caller enters Put(b) with the buffer its last Get returned, with nil,
\* or with a buffer of its own making
PutCall(p) ==
    /\ ppc[p] = "idle"
    /\ calls < MaxCalls
    /\ \/ /\ pres[p].op = "Get"
          /\ pbuf' = [pbuf EXCEPT ![p] = pres[p].buf]
          /\ UNCHANGED nextId
       \/ /\ \E n \in 0..(MaxBufSize + 1) :
                 pbuf' = [pbuf EXCEPT ![p] = [id |-> nextId, len |-> n]]
          /\ nextId' = nextId + 1
    /\ ppc' = [ppc EXCEPT ![p] = "put"]
    /\ calls' = calls + 1
    /\ UNCHANGED <<streamVars, freeList, poolBufSize, bufNum, psize, pres>>

\* Put: the length test and the select
PutBody(p) ==
    /\ ppc[p] = "put"
    /\ ppc' = [ppc EXCEPT ![p] = "idle"]
    /\ IF ~PutSizeOK(pbuf[p].len, poolBufSize)
       THEN /\ pres' = [pres EXCEPT ![p] = [op |-> "Put", buf |-> pbuf[p], err |-> ErrSize,
                                             fill |-> Len(freeList)]]
            /\ UNCHANGED freeList
       ELSE /\ pres' = [pres EXCEPT ![p] = [op |-> "Put", buf |-> pbuf[p], err |-> Nil,
                                             fill |-> Len(freeList)]]
            /\ freeList' = IF CanSend(freeList, bufNum)
                           THEN Append(freeList, pbuf[p])
                           ELSE freeList
    /\ UNCHANGED <<streamVars, poolBufSize, bufNum, psize, pbuf, nextId, calls>>

PoolInit ==
    /\ pc = "none"
    /\ oldnews = <<>>
    /\ r1 = Nil
    /\ input = <<>>
    /\ term = EOF
    /\ resets = 0
    /\ resetFrom = "none"
    /\ replacer = EmptyReplacer
    /\ pos = 0
    /\ srcDone = FALSE
    /\ latePulls = 0
    /\ spin = 0
    /\ maxSearchTokenLen = 0
    /\ err = Nil
    /\ buf = <<>>
    /\ bufLen = 0
    /\ buf0 = 0
    /\ buf1 = 0
    /\ rmax = 0
    /\ plen = 0
    /\ ret = [n |-> 0, err |-> Nil]
    /\ out = <<>>
    /\ hist = <<>>
    /\ reports = 0
    /\ bytewise = TRUE
    /\ written = 0
    /\ panicMsg = ""
    /\ \E n \in 0..MaxBufNum, size \in 0..MaxBufSize : NewBytePool(n, size)

PoolNext ==
    \E p \in Procs :
        \/ GetCall(p)
        \/ GetBody(p)
        \/ PutCall(p)
        \/ PutBody(p)

\* one fixed-size pool shared by the callers of Procs
PoolSpec == PoolInit /\ [][PoolNext]_vars

\* the engine and the underlying reader take a step whenever they can, and a
\* reader that has nothing left says so instead of answering (0, nil) forever
FairSpec == Spec /\ WF_vars(Next) /\ WF_vars(ReadPull /\ err' # Nil)

TypeOK ==
    /\ pc \in {"new", "wrap", "idle", "top", "scan", "panic", "none"}
    /\ Len(buf) = buf1
    /\ pos \in 0..Len(input)

\* ------------------------------------------------------------- reference
IsPrefix(t, s) == Len(t) <= Len(s) /\ \A i \in 1..Len(t) : t[i] = s[i]

\* the whole-input replace of strings.NewReplacer(oldnews...).Replace: one
\* pass left to right; at each position the first pair, in argument order,
\* whose search starts there is replaced and the scan resumes behind it
RECURSIVE Canon(_, _)
Canon(pairs, s) ==
    IF Len(s) = 0 THEN <<>>
    ELSE LET ks == {k \in 1..Len(pairs) : IsPrefix(pairs[k].search, s)}
         IN  IF ks = {} THEN <<s[1]>> \o Canon(pairs, Tail(s))
             ELSE LET k == CHOOSE i \in ks : \A j \in ks : i <= j
                  IN  pairs[k].replace \o Canon(pairs, Slice(s, Len(pairs[k].search), Len(s)))

Built == pc \in {"wrap", "idle", "top", "scan"} \/ (pc = "panic" /\ replacer # EmptyReplacer)

Reported == reports >= 1

AtPull == pc = "top" /\ buf0 = 0 /\ err = Nil

\* ------------------------------------------------------------------ claims

\* C1: for every input, token set, split of the input into underlying reads
\* and size of the caller's buffers, the bytes Read has returned when it
\* reports the terminal condition are the canonical whole-input replace.
C1_StreamEqualsCanon ==
    Reported => out = Canon(replacer.replaces, input)

\* C2: in every state of Read, every step of the scan-and-replace loop
\* included, 0 <= buf0 <= buf1 <= len(buf), and no replacement needs bytes
\* beyond the end of the buffer.
C2_NoOverflow ==
    /\ 0 <= buf0 /\ buf0 <= buf1 /\ buf1 <= bufLen
    /\ panicMsg # "slice bounds out of range"

\* C3: a Read call that has started returns (to the caller, or by a panic
\* of another cause) after finitely many steps, the underlying reader
\* answering every pull.
C3_ReadReturns == (pc \in {"top", "scan"}) ~> (pc \in {"idle", "panic"})

\* C4: once the underlying reader has returned its terminal condition it is
\* never pulled again, and from the first Read that returns the condition on
\* every Read returns the same condition, the later ones with zero bytes.
C4_Sticky ==
    /\ latePulls = 0
    /\ reports >= 1 => ret.err = term
    /\ reports >= 2 => ret.n = 0

C4_Witness == reports = 2 /\ srcDone /\ out # <<>>

\* C5: when Read returns a terminal condition (EOF or error alike) nothing
\* is left in the buffer, and the bytes returned so far are exactly the
\* bytes read, replacements applied, once and in order.
C5_DrainThenReport ==
    ret.err # Nil => /\ buf1 = 0
                     /\ buf0 = 0
                     /\ out = hist
                     /\ pos = Len(input)

C5_Witness ==
    /\ ret.err = ERR
    /\ out # <<>>
    /\ out # input
    /\ reports = 1

\* C6: when every pair has search = replace, the output is the input.
Identity == \A k \in 1..Len(replacer.replaces) :
                replacer.replaces[k].search = replacer.replaces[k].replace

C6_Idempotent ==
    (Built /\ Identity /\ Reported) => out = input

C6_Witness ==
    /\ Built /\ Identity /\ Reported
    /\ Len(input) >= 3
    /\ out = input
    /\ \E k \in 1..Len(replacer.replaces) : BytesIndex(input, replacer.replaces[k].search) >= 0

\* C7: with a single pair the output is the canonical replace for every
\* split of the input into underlying reads, one byte per read included.
C7_SinglePair ==
    (Len(replacer.replaces) = 1 /\ Reported) => out = Canon(replacer.replaces, input)

C7_Witness ==
    /\ Len(replacer.replaces) = 1
    /\ Reported
    /\ bytewise
    /\ Len(replacer.replaces[1].search) >= 2
    /\ BytesIndex(input, replacer.replaces[1].search) >= 0
    /\ out = Canon(replacer.replaces, input)
    /\ out # input

\* C8: the ratio NewReplacer keeps is the minimum of len(search)/len(replace)
\* over the pairs with len(replace) > len(search), the sentinel when no pair
\* grows; the lengths are the maxima over the pairs.
Growing == {k \in 1..Len(replacer.replaces) :
               Len(replacer.replaces[k].replace) > Len(replacer.replaces[k].search)}

PairRatio(k) == [num |-> Len(replacer.replaces[k].search),
                 den |-> Len(replacer.replaces[k].replace)]

C8_RatioIsMin ==
    Built =>
        /\ (Growing = {}) <=> (replacer.maxRatio.num < 0)
        /\ Growing # {} =>
               /\ \E k \in Growing : replacer.maxRatio = PairRatio(k)
               /\ \A k \in Growing : ~RatioGT(replacer.maxRatio, PairRatio(k))
        /\ \A k \in 1..Len(replacer.replaces) :
               /\ Len(replacer.replaces[k].search) <= replacer.maxSearchLen
               /\ Len(replacer.replaces[k].replace) <= replacer.maxReplaceLen

\* C9 as stated: whenever a Read call begins or has returned, and whenever
\* the engine pulls from the underlying reader, buf1 <= max.
C9_BetweenPasses ==
    (pc = "idle" \/ AtPull) => buf1 <= rmax

\* C9 amended: whenever the engine pulls from the underlying reader,
\* buf1 <= max.
C9_AtPull == AtPull => buf1 <= rmax

C9_Witness == AtPull /\ buf1 > 0 /\ buf1 = rmax /\ rmax < bufLen

\* C10: replacer.Index returns the smallest of the members' first
\* occurrences with that member's pair, -1 exactly when no member matches,
\* and of several members at the smallest index the earliest registered.
Region == Slice(buf, buf0, buf1)

Matching == {k \in 1..Len(replacer.replaces) :
                BytesIndex(Region, replacer.replaces[k].search) >= 0}

Earliest == {k \in Matching : \A j \in Matching :
                BytesIndex(Region, replacer.replaces[k].search)
                    <= BytesIndex(Region, replacer.replaces[j].search)}

C10_IndexLeftmostFirst ==
    pc = "scan" =>
        LET m == ReplacerIndex(replacer, Region)
        IN  /\ (Matching = {}) <=> (m.index = -1)
            /\ Matching # {} =>
                   /\ m.member \in Earliest
                   /\ \A j \in Earliest : m.member <= j
                   /\ m.index = BytesIndex(Region, replacer.replaces[m.member].search)
                   /\ m.search = replacer.replaces[m.member].search
                   /\ m.replace = replacer.replaces[m.member].replace

C10_Witness ==
    /\ pc = "scan"
    /\ Cardinality(Earliest) >= 2
    /\ Cardinality(Matching) >= 2

\* C11: NewReplacer on a list of odd length panics with the odd-count
\* message, whatever the odd length; no replacer is built, no engine is set
\* up and nothing is pulled from a reader.
C11_OddPanics ==
    (pc # "new" /\ Len(oldnews) % 2 = 1) =>
        /\ pc = "panic"
        /\ panicMsg = "stream.NewReplacer: odd argument count"
        /\ replacer = EmptyReplacer
        /\ bufLen = 0
        /\ pos = 0 /\ ~srcDone

C11_Witness ==
    /\ pc = "panic"
    /\ Len(oldnews) = 3
    /\ panicMsg = "stream.NewReplacer: odd argument count"

\* C12: NewReplacer on an even-length list with empty-search pairs does not
\* panic and builds the replacer (members, sizing hints, and with them the
\* stream it yields) that the list without those pairs builds.
RECURSIVE Stripped(_)
Stripped(l) ==
    IF Len(l) < 2 THEN <<>>
    ELSE IF Len(l[1]) = 0 THEN Stripped(Slice(l, 2, Len(l)))
    ELSE <<l[1], l[2]>> \o Stripped(Slice(l, 2, Len(l)))

HasEmptySearch == \E i \in 1..Len(oldnews) : i % 2 = 1 /\ Len(oldnews[i]) = 0

C12_EmptySearchDropped ==
    (pc # "new" /\ Len(oldnews) % 2 = 0) =>
        /\ panicMsg # "stream.NewReplacer: odd argument count"
        /\ panicMsg # "index out of range"
        /\ replacer = NewReplacerLoop(Stripped(oldnews), 0, EmptyReplacer)
        /\ \A k \in 1..Len(replacer.replaces) : Len(replacer.replaces[k].search) > 0

C12_Witness ==
    /\ HasEmptySearch
    /\ Len(replacer.replaces) = 1
    /\ replacer.maxReplaceLen = 1
    /\ Reported
    /\ out # input

\* C19: a replacer without members is built without a panic, and Replace on
\* a non-nil reader then panics in ResetEx with the empty-search-token
\* message before anything is pulled from the reader.
C19_EmptyReplacerPanics ==
    (pc \notin {"new", "wrap"} /\ Len(oldnews) % 2 = 0
        /\ Len(replacer.replaces) = 0 /\ r1 # Nil) =>
        /\ pc = "panic"
        /\ panicMsg = "search token cannot be nil/empty"
        /\ pos = 0 /\ ~srcDone /\ latePulls = 0
        /\ out = <<>>

C19_Witness ==
    /\ pc = "panic"
    /\ panicMsg = "search token cannot be nil/empty"
    /\ Len(oldnews) = 2
    /\ Len(input) > 0

\* C15: whenever Read has returned and no terminal condition is pending,
\* buf[buf0:buf1] holds at most maxSearchTokenLen-1 bytes and no complete
\* search token; and no step of the scan loop moves buf0 backwards.
C15_RetainedTail ==
    /\ []((pc = "idle" /\ err = Nil) =>
              /\ buf1 - buf0 <= maxSearchTokenLen - 1
              /\ Matching = {})
    /\ [][pc = "scan" => buf0' >= buf0]_vars

C15_Witness ==
    /\ pc = "idle" /\ err = Nil
    /\ ret.n > 0
    /\ maxSearchTokenLen >= 2
    /\ buf1 - buf0 = maxSearchTokenLen - 1
    /\ \E k \in 1..Len(replacer.replaces) : IsPrefix(Region, replacer.replaces[k].search)

\* C17: buf0 never lies before the end of the bytes a replacement has
\* written, in any state of this or a later Read, so no scan of
\* buf[buf0:buf1] finds a token that starts in or reaches into them.
C17_NoRescan == written <= buf0

C17_Witness ==
    /\ pc = "scan"
    /\ written > 0
    /\ buf1 > written
    /\ \E k \in 1..Len(replacer.replaces) :
           LET i == BytesIndex(buf, replacer.replaces[k].search)
           IN  i >= 0 /\ i < written /\ i + Len(replacer.replaces[k].search) > written
    /\ Matching = {}

\* C18: a Read with a non-empty p returns at least one byte, and at most
\* len(p), or a terminal condition; and the underlying reader is pulled only
\* with buf0 = 0 and no condition pending.
Pulled ==
    \/ pos' > pos
    \/ srcDone' /\ ~srcDone
    \/ latePulls' > latePulls
    \/ spin' # spin /\ pc' = "top"

C18_NoEmptyReturn ==
    /\ []((pc = "idle" /\ plen > 0) => (ret.n >= 1 \/ ret.err # Nil))
    /\ [](pc = "idle" => ret.n <= plen)
    /\ [][Pulled => (buf0 = 0 /\ err = Nil)]_vars

C18_Witness ==
    /\ pc = "idle"
    /\ plen = 2
    /\ ret = [n |-> 1, err |-> Nil]
    /\ buf1 > 0

\* C16: a ResetEx between Reads, whatever the engine held, leaves buf0 =
\* buf1 = 0 and no pending condition, max computed from the new replacer
\* and the buffer in use; the Reads after it return the new reader's bytes
\* with the new replacements and the new reader's condition.
C16_ResetReinit ==
    /\ (resets >= 1 /\ pc = "idle" /\ pos = 0 /\ ~srcDone) =>
           /\ buf0 = 0 /\ buf1 = 0 /\ err = Nil
           /\ maxSearchTokenLen = replacer.maxSearchLen
           /\ bufLen >= defaultBufSize
           /\ bufLen >= replacer.maxSearchLen /\ bufLen >= replacer.maxReplaceLen
           /\ rmax = IF replacer.maxRatio.num > 0
                     THEN (replacer.maxRatio.num * bufLen) \div replacer.maxRatio.den
                     ELSE bufLen
    /\ (resets >= 1 /\ ret.err # Nil) =>
           /\ ret.err = term
           /\ pos = Len(input)
           /\ out = hist
           /\ Len(replacer.replaces) = 1 => out = Canon(replacer.replaces, input)

C16_Witness ==
    /\ resets = 1
    /\ resetFrom = "mid"
    /\ bufLen > defaultBufSize
    /\ rmax < defaultBufSize
    /\ ret.err = ERR
    /\ out # <<>>
    /\ out # input

\* C13: a Put with a buffer whose length is not poolBufSize returns the error
\* and leaves the free list as it was, whatever it held.
C13_PutWrongSize ==
    [][\A p \in Procs :
          (ppc[p] = "put" /\ ppc'[p] = "idle" /\ pbuf[p].len # poolBufSize) =>
              /\ pres'[p].err = ErrSize
              /\ freeList' = freeList]_vars

C13_Witness ==
    \E p \in Procs, q \in Procs :
        /\ pres[p].op = "Put" /\ pres[p].err = ErrSize
        /\ 0 < pres[p].fill /\ pres[p].fill < bufNum
        /\ pres[q].op = "Put" /\ pres[q].err = ErrSize /\ pres[q].fill = bufNum
        /\ Len(freeList) = bufNum

\* C14: with callers interleaved a call inside Get or Put can always take its
\* step; Get(poolBufSize) on an empty free list returns a newly made buffer of
\* length poolBufSize; Put of a buffer of length poolBufSize on a full free list
\* returns nil and leaves the list as it was; the list never holds more than
\* bufNum buffers, all of length poolBufSize.
C14_PoolNonBlocking ==
    /\ [](/\ Len(freeList) <= bufNum
          /\ \A i \in 1..Len(freeList) : freeList[i].len = poolBufSize)
    /\ [](\A p \in Procs :
             /\ (ppc[p] = "get") => ENABLED GetBody(p)
             /\ (ppc[p] = "put") => ENABLED PutBody(p))
    /\ [][\A p \in Procs :
             (ppc[p] = "get" /\ ppc'[p] = "idle" /\ psize[p] = poolBufSize /\ freeList = <<>>) =>
                 /\ pres'[p].buf = [id |-> nextId, len |-> poolBufSize]
                 /\ nextId' = nextId + 1
                 /\ freeList' = <<>>]_vars
    /\ [][\A p \in Procs :
             (ppc[p] = "put" /\ ppc'[p] = "idle" /\ pbuf[p].len = poolBufSize
                 /\ Len(freeList) = bufNum) =>
                 /\ pres'[p].err = Nil
                 /\ freeList' = freeList]_vars

C14_Witness ==
    \E p \in Procs, q \in Procs :
        /\ p # q
        /\ bufNum >= 1
        /\ pres[p].op = "Put" /\ pres[p].err = Nil /\ pres[p].fill = bufNum
        /\ pres[q].op = "Get" /\ pres[q].fill = 0 /\ pres[q].buf.len = poolBufSize
        /\ pres[q].buf.id > 0
        /\ ppc[q] = "put"

====
